---- MODULE Spec2Model ----
(***************************************************************************)
(* Model of hailo_apps/config/config_core.py: the YAML document loader     *)
(* with its lru_cache, and the accessors that resolve applications,        *)
(* architectures, models and input aliases from the resource document.     *)
(*                                                                         *)
(* Python values are tagged records, so that values of different Python    *)
(* types can be compared.  A Python str is the sequence of its code        *)
(* points: str.lower() and the ordering used by sorted() are computed on   *)
(* the code points.  The keys of a dict are strings.                       *)
(***************************************************************************)
EXTENDS Integers, Sequences, FiniteSets, TLC

VARIABLES files, cache, last, inflight

vars == <<files, cache, last, inflight>>

----------------------------------------------------------------------------
(* String literals of the source, as code points. *)

s_none == <<110, 111, 110, 101>>  \* "none"
s_name == <<110, 97, 109, 101>>  \* "name"
s_source == <<115, 111, 117, 114, 99, 101>>  \* "source"
s_url == <<117, 114, 108>>  \* "url"
s_mz == <<109, 122>>  \* "mz"
s_gen_ai_mz == <<103, 101, 110, 45, 97, 105, 45, 109, 122>>  \* "gen-ai-mz"
s_models == <<109, 111, 100, 101, 108, 115>>  \* "models"
s_default == <<100, 101, 102, 97, 117, 108, 116>>  \* "default"
s_extra == <<101, 120, 116, 114, 97>>  \* "extra"
s_videos == <<118, 105, 100, 101, 111, 115>>  \* "videos"
s_images == <<105, 109, 97, 103, 101, 115>>  \* "images"
s_json == <<106, 115, 111, 110>>  \* "json"
s_inputs == <<105, 110, 112, 117, 116, 115>>  \* "inputs"
s_inputs_aliases == <<105, 110, 112, 117, 116, 115, 95, 97, 108, 105, 97, 115, 101, 115>>  \* "inputs_aliases"
s_resources == <<114, 101, 115, 111, 117, 114, 99, 101, 115>>  \* "resources"
s_model_zoo_mapping == <<109, 111, 100, 101, 108, 95, 122, 111, 111, 95, 109, 97, 112, 112, 105, 110, 103>>  \* "model_zoo_mapping"

(* Strings used in the documents and as arguments of the calls. *)

s_empty == <<>>  \* ""
s_None == <<78, 111, 110, 101>>  \* "None"
s_NONE == <<78, 79, 78, 69>>  \* "NONE"
s_nOnE == <<110, 79, 110, 69>>  \* "nOnE"
s_non == <<110, 111, 110>>  \* "non"
s_yolov8n == <<121, 111, 108, 111, 118, 56, 110>>  \* "yolov8n"
s_yolov8m == <<121, 111, 108, 111, 118, 56, 109>>  \* "yolov8m"
s_detection == <<100, 101, 116, 101, 99, 116, 105, 111, 110>>  \* "detection"
s_llm_chat == <<108, 108, 109, 95, 99, 104, 97, 116>>  \* "llm_chat"
s_chat == <<99, 104, 97, 116>>  \* "chat"
s_hailo8 == <<104, 97, 105, 108, 111, 56>>  \* "hailo8"
s_hailo10h == <<104, 97, 105, 108, 111, 49, 48, 104>>  \* "hailo10h"
s_missing == <<109, 105, 115, 115, 105, 110, 103>>  \* "missing"
s_hef_url == <<104, 116, 116, 112, 58, 47, 47, 120, 47, 121, 46, 104, 101, 102>>  \* "http://x/y.hef"
s_Zoo == <<90, 111, 111>>  \* "Zoo"

----------------------------------------------------------------------------
(* Python values. *)

PyNone == [t |-> "NoneType"]
PyStr(s) == [t |-> "str", s |-> s]
PyInt(n) == [t |-> "int", n |-> n]
PyBool(b) == [t |-> "bool", b |-> b]
PyList(l) == [t |-> "list", l |-> l]
PyDict(m) == [t |-> "dict", m |-> m]

EmptyDict == PyDict(<<>>)

(* isinstance(v, dict), isinstance(v, list), isinstance(v, str) *)
IsDict(v) == v.t = "dict"
IsList(v) == v.t = "list"
IsStr(v) == v.t = "str"

(* The truth value of a Python object, as `or` and `not` test it. *)
Truthy(v) ==
    CASE v.t = "NoneType" -> FALSE
      [] v.t = "bool" -> v.b
      [] v.t = "int" -> v.n # 0
      [] v.t = "str" -> Len(v.s) > 0
      [] v.t = "list" -> Len(v.l) > 0
      [] v.t = "dict" -> DOMAIN v.m # {}
      [] OTHER -> TRUE

(* d.get(key, dflt) on a dict d. *)
dict_get(d, key, dflt) == IF key \in DOMAIN d.m THEN d.m[key] ELSE dflt

(* str.lower() on ASCII text: the capitals A..Z move to a..z. *)
lower(s) == [i \in DOMAIN s |-> IF s[i] >= 65 /\ s[i] <= 90 THEN s[i] + 32 ELSE s[i]]

(* The order of two Python strings: lexicographic on the code points. *)
RECURSIVE str_lt(_, _)
str_lt(a, b) ==
    IF Len(b) = 0 THEN FALSE
    ELSE IF Len(a) = 0 THEN TRUE
    ELSE IF Head(a) # Head(b) THEN Head(a) < Head(b)
    ELSE str_lt(Tail(a), Tail(b))

(* The outcome of a call: a returned value or a raised exception. *)
Return(v) == [ok |-> TRUE, val |-> v]
Raise(e) == [ok |-> FALSE, exc |-> e]

ConfigErrorMissing(path) ==
    [class |-> "ConfigError", msg |-> "Missing config file: ", path |-> path]
ConfigErrorInvalid(path) ==
    [class |-> "ConfigError", msg |-> "Invalid YAML in ", path |-> path,
     cause |-> "yaml.YAMLError"]
AttributeError == [class |-> "AttributeError"]
TypeError == [class |-> "TypeError"]

----------------------------------------------------------------------------
(* ConfigPaths: the two configuration documents. *)

main_config == "hailo_apps/config/config.yaml"
resources_config == "hailo_apps/config/resources_config.yaml"

Paths == {main_config, resources_config}

(* Another spelling of the resources file, which pathlib keeps as written   *)
(* (it does not fold ".."), so that the Path differs from resources_config  *)
(* although the operating system opens the same file.                       *)
resources_config_dotdot == "hailo_apps/config/../config/resources_config.yaml"

Spellings == Paths \cup {resources_config_dotdot}

(* The file that path.exists() and open(path) reach. *)
resolve(path) == IF path = resources_config_dotdot THEN resources_config ELSE path

(* A file on disk: absent, present with text the YAML parser rejects, or    *)
(* present with text that yaml.safe_load parses to the value doc.           *)
Missing == [kind |-> "missing"]
Garbled == [kind |-> "garbled"]
Yaml(doc) == [kind |-> "yaml", doc |-> doc]

----------------------------------------------------------------------------
(* _load_yaml and its lru_cache.  The cache is the list of the memoized     *)
(* calls, least recently used first; only a call that returned is stored.   *)

maxsize == 16

cache_has(path) == \E i \in DOMAIN cache : cache[i].key = path
cache_doc(path) == cache[CHOOSE i \in DOMAIN cache : cache[i].key = path].doc
cache_without(path) == SelectSeq(cache, LAMBDA c : c.key # path)

(* load_yaml_body without the `or {}` of its return statement. *)
load_yaml_body_no_default(path) ==
    IF files[resolve(path)].kind = "missing" THEN Raise(ConfigErrorMissing(path))
    ELSE IF files[resolve(path)].kind = "garbled" THEN Raise(ConfigErrorInvalid(path))
    ELSE Return(files[resolve(path)].doc)

(* The body of _load_yaml: what a call that misses the cache does. *)
load_yaml_body(path) ==
    IF files[resolve(path)].kind = "missing" THEN Raise(ConfigErrorMissing(path))
    ELSE IF files[resolve(path)].kind = "garbled" THEN Raise(ConfigErrorInvalid(path))
    ELSE Return(IF Truthy(files[resolve(path)].doc) THEN files[resolve(path)].doc
                ELSE EmptyDict)

(* _load_yaml testing path.exists() before the cache is looked up. *)
_load_yaml_exists_first(path) ==
    IF files[resolve(path)].kind = "missing" THEN Raise(ConfigErrorMissing(path))
    ELSE IF cache_has(path) THEN Return(cache_doc(path))
    ELSE load_yaml_body(path)

(* _load_yaml(path) as its callers see it: the memoized value when the     *)
(* path is cached, the body otherwise.                                      *)
_load_yaml(path) ==
    IF cache_has(path) THEN Return(cache_doc(path)) ELSE load_yaml_body(path)

(* The cache after _load_yaml(path): a hit becomes the most recent entry,  *)
(* a miss that returned is stored and the oldest entry leaves a full cache, *)
(* a miss that raised stores nothing.                                       *)
(* lru_cache_after with a failed call memoized as an empty document. *)
lru_cache_after_failure_kept(path) ==
    IF cache_has(path)
    THEN Append(cache_without(path), [key |-> path, doc |-> cache_doc(path)])
    ELSE LET kept == IF Len(cache) >= maxsize THEN Tail(cache) ELSE cache
             doc == IF load_yaml_body(path).ok THEN load_yaml_body(path).val
                    ELSE EmptyDict
         IN Append(kept, [key |-> path, doc |-> doc])

lru_cache_after(path) ==
    IF cache_has(path)
    THEN Append(cache_without(path), [key |-> path, doc |-> cache_doc(path)])
    ELSE IF load_yaml_body(path).ok
    THEN LET kept == IF Len(cache) >= maxsize THEN Tail(cache) ELSE cache
         IN Append(kept, [key |-> path, doc |-> load_yaml_body(path).val])
    ELSE cache

get_main_config == _load_yaml(main_config)
get_resources_config == _load_yaml(resources_config)

(* Where a returned object lives: built by the call, or the object stored  *)
(* in the cache entry of key under the keys at.                             *)
Fresh == [fresh |-> TRUE]
Loc(key, at) == [fresh |-> FALSE, key |-> key, at |-> at]

(* _load_yaml returns the very object the cache holds (or will hold). *)
ref_document(path) == IF _load_yaml(path).ok THEN Loc(path, <<>>) ELSE Fresh

(* cfg.get(k, dflt) returns the object stored under k, or the new default. *)
ref_top(path, k) ==
    IF _load_yaml(path).ok /\ IsDict(_load_yaml(path).val)
       /\ k \in DOMAIN _load_yaml(path).val.m
    THEN Loc(path, <<k>>) ELSE Fresh

----------------------------------------------------------------------------
(* Helpers for the accessors. *)

(* o.get(key, dflt), where o is the outcome of the expression before the   *)
(* dot: an exception propagates, and only a dict has a get method.          *)
py_get(o, key, dflt) ==
    IF ~o.ok THEN o
    ELSE IF ~IsDict(o.val) THEN Raise(AttributeError)
    ELSE Return(dict_get(o.val, key, dflt))

(* sorted(S) for a set of strings: ascending order of str. *)
RECURSIVE sorted(_)
sorted(S) ==
    IF S = {} THEN <<>>
    ELSE LET least == CHOOSE x \in S : \A y \in S \ {x} : str_lt(x, y)
         IN <<least>> \o sorted(S \ {least})

str_list(keys) == PyList([i \in DOMAIN keys |-> PyStr(keys[i])])

----------------------------------------------------------------------------
(* Resources config. *)

skip == {s_videos, s_images, s_json, s_inputs, s_inputs_aliases}

(* get_available_apps without the filter on the reserved keys. *)
get_resources_path_config == py_get(get_main_config, s_resources, EmptyDict)
get_model_zoo_mapping == py_get(get_main_config, s_model_zoo_mapping, EmptyDict)

get_available_apps_no_skip ==
    LET cfg == get_resources_config
    IN IF ~cfg.ok THEN cfg
       ELSE IF ~IsDict(cfg.val) THEN Raise(AttributeError)
       ELSE Return(str_list(sorted({k \in DOMAIN cfg.val.m : IsDict(cfg.val.m[k])})))

get_available_apps ==
    LET cfg == get_resources_config
    IN IF ~cfg.ok THEN cfg
       ELSE IF ~IsDict(cfg.val) THEN Raise(AttributeError)
       ELSE Return(str_list(sorted({k \in DOMAIN cfg.val.m :
                                      IsDict(cfg.val.m[k]) /\ k \notin skip})))

get_supported_architectures(app) ==
    LET models == py_get(py_get(get_resources_config, app, EmptyDict),
                         s_models, EmptyDict)
    IN IF ~models.ok THEN models
       ELSE IF ~IsDict(models.val) THEN Raise(AttributeError)
       ELSE Return(str_list(sorted({k \in DOMAIN models.val.m :
                                      IsDict(models.val.m[k])})))

----------------------------------------------------------------------------
(* Model resolution. *)

(* _is_none comparing the string as written, without lower(). *)
_is_none_case_sensitive(value) == value = PyNone \/ (IsStr(value) /\ value.s = s_none)

_is_none(value) == value = PyNone \/ (IsStr(value) /\ lower(value.s) = s_none)

ModelEntry(name, source, url) ==
    [t |-> "ModelEntry", name |-> name, source |-> source, url |-> url]

(* extract_step putting the new entry in front of the list. *)
extract_step_prepend(out, e) ==
    IF _is_none(e) THEN out
    ELSE IF IsDict(e)
    THEN LET name == dict_get(e, s_name, PyNone)
         IN IF ~_is_none(name)
            THEN <<ModelEntry(name, dict_get(e, s_source, PyStr(s_mz)),
                              dict_get(e, s_url, PyNone))>> \o out
            ELSE out
    ELSE IF IsStr(e) THEN <<ModelEntry(e, PyStr(s_mz), PyNone)>> \o out
    ELSE out

(* One pass of the body of the for loop of _extract_models: the list out   *)
(* after element e.                                                         *)
extract_step(out, e) ==
    IF _is_none(e) THEN out
    ELSE IF IsDict(e)
    THEN LET name == dict_get(e, s_name, PyNone)
         IN IF ~_is_none(name)
            THEN Append(out, ModelEntry(name,
                                        dict_get(e, s_source, PyStr(s_mz)),
                                        dict_get(e, s_url, PyNone)))
            ELSE out
    ELSE IF IsStr(e) THEN Append(out, ModelEntry(e, PyStr(s_mz), PyNone))
    ELSE out

(* The for loop of _extract_models from element i on, out being the list   *)
(* built so far.                                                            *)
RECURSIVE extract_loop(_, _, _)
extract_loop(entries, i, out) ==
    IF i > Len(entries) THEN out
    ELSE extract_loop(entries, i + 1, extract_step(out, entries[i]))

_extract_models(entry) ==
    IF _is_none(entry) THEN PyList(<<>>)
    ELSE PyList(extract_loop(IF IsList(entry) THEN entry.l ELSE <<entry>>, 1, <<>>))

(* cfg.get(app, {}).get("models", {}).get(arch, {}).get(tier) *)
model_slot(app, arch, tier) ==
    py_get(py_get(py_get(py_get(get_resources_config, app, EmptyDict),
                         s_models, EmptyDict),
                  arch, EmptyDict),
           tier, PyNone)

get_default_models(app, arch) ==
    LET slot == model_slot(app, arch, s_default)
    IN IF ~slot.ok THEN slot ELSE Return(_extract_models(slot.val))

get_extra_models(app, arch) ==
    LET slot == model_slot(app, arch, s_extra)
    IN IF ~slot.ok THEN slot ELSE Return(_extract_models(slot.val))

(* get_all_models leaving out the extra entries whose name a default      *)
(* entry already has.                                                       *)
get_all_models_unique(app, arch) ==
    LET d == get_default_models(app, arch)
        x == get_extra_models(app, arch)
    IN IF ~d.ok THEN d
       ELSE IF ~x.ok THEN x
       ELSE Return(PyList(d.val.l \o
                SelectSeq(x.val.l, LAMBDA m : \A i \in DOMAIN d.val.l :
                                                  d.val.l[i].name # m.name)))

get_all_models(app, arch) ==
    LET d == get_default_models(app, arch)
        x == get_extra_models(app, arch)
    IN IF ~d.ok THEN d
       ELSE IF ~x.ok THEN x
       ELSE Return(PyList(d.val.l \o x.val.l))

(* The for loop of get_model_info from element i on. *)
RECURSIVE model_info_loop(_, _, _)
model_info_loop(models, i, model) ==
    IF i > Len(models) THEN PyNone
    ELSE IF models[i].name = PyStr(model) THEN models[i]
    ELSE model_info_loop(models, i + 1, model)

(* get_model_info scanning the extra tier before the default tier. *)
get_model_info_extra_first(app, arch, model) ==
    LET d == get_default_models(app, arch)
        x == get_extra_models(app, arch)
    IN IF ~d.ok THEN d
       ELSE IF ~x.ok THEN x
       ELSE Return(model_info_loop(x.val.l \o d.val.l, 1, model))

get_model_info(app, arch, model) ==
    LET all == get_all_models(app, arch)
    IN IF ~all.ok THEN all ELSE Return(model_info_loop(all.val.l, 1, model))

----------------------------------------------------------------------------
(* Inputs. *)

resolve_inputs_app(app) ==
    LET aliases == py_get(get_resources_config, s_inputs_aliases, EmptyDict)
    IN py_get(aliases, app, PyStr(app))

get_inputs_config == py_get(get_resources_config, s_inputs, EmptyDict)

(* inputs.get(resolved, {}): the key must be hashable, and a key that is   *)
(* no string is in no document.                                             *)
get_inputs_for_app(app) ==
    LET inputs == get_inputs_config
        resolved == resolve_inputs_app(app)
    IN IF ~inputs.ok THEN inputs
       ELSE IF ~resolved.ok THEN resolved
       ELSE IF ~IsDict(inputs.val) THEN Raise(AttributeError)
       ELSE IF IsDict(resolved.val) \/ IsList(resolved.val) THEN Raise(TypeError)
       ELSE IF IsStr(resolved.val) THEN py_get(inputs, resolved.val.s, EmptyDict)
       ELSE Return(EmptyDict)

ref_inputs_for_app(app) ==
    LET inputs == get_inputs_config
        resolved == resolve_inputs_app(app)
    IN IF get_inputs_for_app(app).ok /\ ref_top(resources_config, s_inputs) # Fresh
          /\ IsStr(resolved.val) /\ resolved.val.s \in DOMAIN inputs.val.m
       THEN Loc(resources_config, <<s_inputs, resolved.val.s>>) ELSE Fresh

get_shared_images == py_get(get_resources_config, s_images, PyList(<<>>))
get_shared_videos == py_get(get_resources_config, s_videos, PyList(<<>>))
get_shared_json_files == py_get(get_resources_config, s_json, PyList(<<>>))

----------------------------------------------------------------------------
(* Gen-AI detection. *)

(* The inner for loop of is_gen_ai_app from model i on: TRUE when it       *)
(* returns True. *)
RECURSIVE gen_ai_models_loop(_, _)
gen_ai_models_loop(models, i) ==
    IF i > Len(models) THEN FALSE
    ELSE IF models[i].source = PyStr(s_gen_ai_mz) THEN TRUE
    ELSE gen_ai_models_loop(models, i + 1)

(* The outer for loop of is_gen_ai_app from architecture i on. *)
RECURSIVE gen_ai_archs_loop(_, _, _)
gen_ai_archs_loop(app, archs, i) ==
    IF i > Len(archs) THEN Return(PyBool(FALSE))
    ELSE LET all == get_all_models(app, archs[i].s)
         IN IF ~all.ok THEN all
            ELSE IF gen_ai_models_loop(all.val.l, 1) THEN Return(PyBool(TRUE))
            ELSE gen_ai_archs_loop(app, archs, i + 1)

(* is_gen_ai_app returning after the first architecture. *)
is_gen_ai_app_first_arch(app) ==
    LET archs == get_supported_architectures(app)
    IN IF ~archs.ok THEN archs
       ELSE IF archs.val.l = <<>> THEN Return(PyBool(FALSE))
       ELSE LET all == get_all_models(app, archs.val.l[1].s)
            IN IF ~all.ok THEN all
               ELSE Return(PyBool(gen_ai_models_loop(all.val.l, 1)))

is_gen_ai_app(app) ==
    LET archs == get_supported_architectures(app)
    IN IF ~archs.ok THEN archs ELSE gen_ai_archs_loop(app, archs.val.l, 1)

----------------------------------------------------------------------------
(* The documents and arguments the model runs on. *)

MaxLen == 3
MaxSlotLen == 2

SeqsUpTo(S, n) == UNION {[1..k -> S] : k \in 0..n}

(* A key that a document leaves out. *)
Absent == [t |-> "absent"]

(* The dict of the given keys, leaving out those whose value is Absent. *)
mk_dict(keys, value(_)) ==
    PyDict([k \in {kk \in keys : value(kk) # Absent} |-> value(k)])

m_full == PyDict(s_name :> PyStr(s_yolov8m) @@ s_source :> PyStr(s_mz)
                 @@ s_url :> PyStr(s_hef_url))
m_gen == PyDict(s_name :> PyStr(s_yolov8n) @@ s_source :> PyStr(s_gen_ai_mz))
m_plain == PyDict(s_name :> PyStr(s_yolov8n))

(* "none" in every mix of capitals, and strings close to it. *)
NoneSpellings ==
    {<<a, b, c, d>> : a \in {110, 78}, b \in {111, 79}, c \in {110, 78}, d \in {101, 69}}

NearNone == {s_empty, s_non, s_none \o <<32>>, <<32>> \o s_none, s_yolov8n}

(* Raw model slots for _extract_models. *)
RawElems ==
    {PyNone, PyStr(s_none), PyStr(s_nOnE), PyStr(s_empty), PyStr(s_yolov8n),
     PyStr(s_non), PyInt(7), PyList(<<PyStr(s_yolov8n)>>),
     m_full, m_gen, m_plain,
     PyDict(s_source :> PyStr(s_mz)),
     PyDict(s_name :> PyNone @@ s_url :> PyStr(s_hef_url)),
     PyDict(s_name :> PyStr(s_NONE)),
     PyDict(s_name :> PyStr(s_empty)),
     PyDict(s_name :> PyStr(s_yolov8n) @@ s_source :> PyNone)}

RawSlots ==
    RawElems \cup {EmptyDict} \cup {PyStr(s) : s \in NoneSpellings \cup NearNone}
             \cup {PyList(l) : l \in SeqsUpTo(RawElems, MaxLen)}

(* Model slots of the resource documents. *)
SlotElems == {PyStr(s_yolov8n), m_full, m_gen}

RichSlots ==
    {Absent, PyNone} \cup SlotElems \cup {PyStr(s) : s \in NoneSpellings \cup NearNone}
        \cup {PyList(l) : l \in SeqsUpTo(SlotElems, MaxSlotLen)}

FewSlots == {Absent, PyStr(s_yolov8n), PyList(<<m_gen, m_full>>)}

Tiers(d, x) ==
    mk_dict({s_default, s_extra}, LAMBDA k : IF k = s_default THEN d ELSE x)

ArchVals ==
    {PyNone, PyStr(s_yolov8n)}
        \cup {Tiers(d, x) : d \in RichSlots, x \in FewSlots}
        \cup {Tiers(d, x) : d \in FewSlots,
                             x \in FewSlots \cup {PyNone, m_gen, PyStr(s_None),
                                                  PyStr(s_NONE), PyStr(s_empty)}}

FewArchVals ==
    {PyNone, EmptyDict, Tiers(PyStr(s_yolov8n), Absent), Tiers(m_full, m_gen)}

ModelsVals ==
    {PyNone, PyStr(s_hailo8), PyList(<<>>), EmptyDict}
        \cup {PyDict(s_hailo8 :> a) : a \in ArchVals}
        \cup {PyDict(s_hailo8 :> a @@ s_hailo10h :> b) :
                a \in FewArchVals, b \in FewArchVals}

AppVals ==
    {PyNone, PyStr(s_yolov8n), PyList(<<>>), EmptyDict}
        \cup {PyDict(s_models :> mv) : mv \in ModelsVals}

img_bus == PyDict(s_name :> PyStr(s_Zoo) @@ s_url :> PyStr(s_hef_url))

AliasVals ==
    {Absent, PyNone, EmptyDict, PyDict(s_llm_chat :> PyStr(s_chat)),
     PyDict(s_llm_chat :> PyNone)}

PoolVals == {Absent, PyList(<<img_bus>>), PyDict(s_Zoo :> img_bus)}

ChatVals == {Absent, PyNone, PyDict(s_models :> PyDict(s_hailo10h :> Tiers(m_gen, Absent)))}

TopDoc(det, chat, videos, aliases) ==
    mk_dict({s_detection, s_chat, s_videos, s_images, s_inputs, s_inputs_aliases},
            LAMBDA k : CASE k = s_detection -> det
                         [] k = s_inputs -> PyDict(s_chat :> PyDict(s_images :> PyList(<<img_bus>>)))
                         [] k = s_chat -> chat
                         [] k = s_videos -> videos
                         [] k = s_images -> PyList(<<img_bus>>)
                         [] k = s_inputs_aliases -> aliases)

ResourceDocs ==
    {TopDoc(det, Absent, Absent, PyDict(s_llm_chat :> PyStr(s_chat))) : det \in AppVals}
        \cup {TopDoc(Tiers(Absent, Absent), chat, videos, aliases) :
                chat \in ChatVals, videos \in PoolVals, aliases \in AliasVals}
        \cup {PyNone, PyList(<<PyStr(s_detection)>>)}

MainDocs == {PyNone, PyDict(s_resources :> EmptyDict)}

Apps == {s_detection, s_llm_chat, s_chat}
Archs == {s_hailo8, s_hailo10h, s_missing}
ModelNames == {s_yolov8n, s_yolov8m, s_missing}

----------------------------------------------------------------------------
(* The calls. *)

NoCall == [op |-> "start", args |-> <<>>, out |-> Return(PyNone), ref |-> Fresh]

(* The callers that can be inside _load_yaml at the same time, and where   *)
(* each of them is.                                                         *)
NumCallers == 2
Callers == 1..NumCallers
Idle == [pc |-> "idle"]
NoCalls == [c \in Callers |-> Idle]

(* A call of an accessor that loads the document at path and returns the   *)
(* object at ref.                                                           *)
CallRef(op, args, out, path, ref) ==
    /\ last' = [op |-> op, args |-> args, out |-> out, ref |-> ref]
    /\ cache' = lru_cache_after(path)
    /\ UNCHANGED <<files, inflight>>

(* A call that returns an object of its own making. *)
Call(op, args, out, path) == CallRef(op, args, out, path, Fresh)

GetMainConfig ==
    CallRef("get_main_config", <<>>, get_main_config, main_config,
            ref_document(main_config))

GetResourcesConfig ==
    CallRef("get_resources_config", <<>>, get_resources_config, resources_config,
            ref_document(resources_config))

GetResourcesPathConfig ==
    CallRef("get_resources_path_config", <<>>, get_resources_path_config,
            main_config, ref_top(main_config, s_resources))

GetModelZooMapping ==
    CallRef("get_model_zoo_mapping", <<>>, get_model_zoo_mapping,
            main_config, ref_top(main_config, s_model_zoo_mapping))

GetInputsForApp ==
    \E app \in Apps :
        CallRef("get_inputs_for_app", <<app>>, get_inputs_for_app(app),
                resources_config, ref_inputs_for_app(app))

GetSharedImages ==
    CallRef("get_shared_images", <<>>, get_shared_images, resources_config,
            ref_top(resources_config, s_images))

GetSharedVideos ==
    CallRef("get_shared_videos", <<>>, get_shared_videos, resources_config,
            ref_top(resources_config, s_videos))

GetSharedJsonFiles ==
    CallRef("get_shared_json_files", <<>>, get_shared_json_files, resources_config,
            ref_top(resources_config, s_json))

GetAvailableApps ==
    Call("get_available_apps", <<>>, get_available_apps, resources_config)

GetSupportedArchitectures ==
    \E app \in Apps :
        Call("get_supported_architectures", <<app>>,
             get_supported_architectures(app), resources_config)

GetDefaultModels ==
    \E app \in Apps, arch \in Archs :
        Call("get_default_models", <<app, arch>>,
             get_default_models(app, arch), resources_config)

GetExtraModels ==
    \E app \in Apps, arch \in Archs :
        Call("get_extra_models", <<app, arch>>,
             get_extra_models(app, arch), resources_config)

GetAllModels ==
    \E app \in Apps, arch \in Archs :
        Call("get_all_models", <<app, arch>>,
             get_all_models(app, arch), resources_config)

GetModelInfo ==
    \E app \in Apps, arch \in Archs, model \in ModelNames :
        Call("get_model_info", <<app, arch, model>>,
             get_model_info(app, arch, model), resources_config)

ResolveInputsApp ==
    \E app \in Apps :
        Call("resolve_inputs_app", <<app>>, resolve_inputs_app(app),
             resources_config)

IsGenAiApp ==
    \E app \in Apps :
        Call("is_gen_ai_app", <<app>>, is_gen_ai_app(app), resources_config)

(* _load_yaml called with the Path path. *)
LoadYamlOf(path) ==
    CallRef("_load_yaml", <<path>>, _load_yaml(path), path, ref_document(path))

LoadYaml == \E path \in Spellings : LoadYamlOf(path)

(* _extract_models applied to the raw slot that is waiting. *)
ExtractModels ==
    /\ last.op = "raw_slot"
    /\ last' = [op |-> "_extract_models", args |-> last.args,
                out |-> Return(_extract_models(last.args[1])), ref |-> Fresh]
    /\ UNCHANGED <<files, cache, inflight>>

----------------------------------------------------------------------------
(* The accessors over a resource document that does not change. *)

Init ==
    /\ \E r \in {Missing, Garbled} \cup {Yaml(d) : d \in ResourceDocs} :
          files = (main_config :> Yaml(PyDict(s_resources :> EmptyDict)))
                      @@ (resources_config :> r)
    /\ cache = <<>>
    /\ last = NoCall
    /\ inflight = NoCalls

Next ==
    \/ GetMainConfig
    \/ GetResourcesConfig
    \/ GetAvailableApps
    \/ GetSupportedArchitectures
    \/ GetDefaultModels
    \/ GetExtraModels
    \/ GetAllModels
    \/ GetModelInfo
    \/ ResolveInputsApp
    \/ IsGenAiApp
    \/ GetResourcesPathConfig
    \/ GetModelZooMapping
    \/ GetInputsForApp
    \/ GetSharedImages
    \/ GetSharedVideos
    \/ GetSharedJsonFiles

Spec == Init /\ [][Next]_vars

(* The loader over files that change between the calls. *)

LoadDocs ==
    {PyNone, PyList(<<>>), PyInt(0), PyDict(s_resources :> EmptyDict),
     PyList(<<PyStr(s_detection)>>)}

FileStates == {Missing, Garbled} \cup {Yaml(d) : d \in LoadDocs}

(* The file at path is written, created or made unreadable as YAML. *)
WriteFile ==
    \E path \in Paths, f \in FileStates \ {Missing} :
        /\ files[path] # f
        /\ files' = [files EXCEPT ![path] = f]
        /\ UNCHANGED <<cache, last, inflight>>

(* The file at path is deleted. *)
RemoveFile ==
    \E path \in Paths :
        /\ files[path] # Missing
        /\ files' = [files EXCEPT ![path] = Missing]
        /\ UNCHANGED <<cache, last, inflight>>

InitLoad ==
    /\ files \in [Paths -> FileStates]
    /\ cache = <<>>
    /\ last = NoCall
    /\ inflight = NoCalls

NextLoad ==
    \/ GetMainConfig
    \/ GetResourcesConfig
    \/ LoadYaml
    \/ WriteFile
    \/ RemoveFile

SpecLoad == InitLoad /\ [][NextLoad]_vars

----------------------------------------------------------------------------
(* The accessors that return mappings and sequences, with a caller that    *)
(* changes the object it was handed.                                        *)

RECURSIVE get_at(_, _)
get_at(doc, at) == IF at = <<>> THEN doc ELSE get_at(doc.m[Head(at)], Tail(at))

RECURSIVE put_at(_, _, _)
put_at(doc, at, v) ==
    IF at = <<>> THEN v
    ELSE PyDict([doc.m EXCEPT ![Head(at)] = put_at(doc.m[Head(at)], Tail(at), v)])

(* obj.clear() on a dict or a list. *)
cleared(obj) == IF IsDict(obj) THEN EmptyDict ELSE PyList(<<>>)

(* The object the last call returned, when the cache holds it. *)
Held == get_at(cache_doc(last.ref.key), last.ref.at)

(* The caller empties the mapping or sequence the last call returned.  The *)
(* object is the one the cache holds, so the cached tree changes with it.   *)
MutateReturned ==
    /\ ~last.ref.fresh
    /\ cache_has(last.ref.key)
    /\ IsDict(Held) \/ IsList(Held)
    /\ Held # cleared(Held)
    /\ cache' = [i \in DOMAIN cache |->
                   IF cache[i].key = last.ref.key
                   THEN [cache[i] EXCEPT !.doc = put_at(@, last.ref.at, cleared(Held))]
                   ELSE cache[i]]
    /\ last' = [op |-> "clear", args |-> <<>>, out |-> Return(PyNone),
                ref |-> last.ref]
    /\ UNCHANGED <<files, inflight>>

AliasMainDocs == {PyNone, PyDict(s_resources :> PyDict(s_name :> PyStr(s_Zoo)))}

AliasDocs ==
    {TopDoc(Tiers(Absent, Absent), Absent, videos, aliases) :
        videos \in PoolVals, aliases \in {Absent, PyDict(s_llm_chat :> PyStr(s_chat))}}
        \cup {PyDict(s_json :> PyList(<<img_bus>>))}

InitAlias ==
    /\ \E m \in AliasMainDocs, r \in AliasDocs :
          files = (main_config :> Yaml(m)) @@ (resources_config :> Yaml(r))
    /\ cache = <<>>
    /\ last = NoCall
    /\ inflight = NoCalls

NextAlias ==
    \/ GetMainConfig
    \/ GetResourcesConfig
    \/ GetResourcesPathConfig
    \/ GetInputsForApp
    \/ GetSharedImages
    \/ GetSharedVideos
    \/ GetSharedJsonFiles
    \/ MutateReturned

SpecAlias == InitAlias /\ [][NextAlias]_vars

----------------------------------------------------------------------------
(* config_handler: the input-get command. *)

s_ref == <<114, 101, 102>>  \* "ref"
s_bus == <<98, 117, 115>>  \* "bus"
s_image == <<105, 109, 97, 103, 101>>  \* "image"
s_img_url == <<104, 116, 116, 112, 58, 47, 47, 120, 47, 105, 46, 106, 112, 103>>  \* "http://x/i.jpg"
s_vid_url == <<104, 116, 116, 112, 58, 47, 47, 120, 47, 118, 46, 109, 112, 52>>  \* "http://x/v.mp4"
s_own_url == <<104, 116, 116, 112, 58, 47, 47, 120, 47, 111, 46, 106, 112, 103>>  \* "http://x/o.jpg"

(* die(msg): the message goes to stderr and SystemExit(1) is raised. *)
SystemExit(msg) == [class |-> "SystemExit", code |-> 1, msg |-> msg]
die(msg) == Raise(SystemExit(msg))

(* a or b: the operand that decides the truth value. *)
py_or(a, b) == IF Truthy(a) THEN a ELSE b

(* The entries of `for entry in v` that pass isinstance(entry, dict).  A   *)
(* list yields its elements; a mapping yields its keys and a string its    *)
(* characters, none of them a dict; any other value cannot be iterated.    *)
iter_dicts(v) ==
    IF IsList(v) THEN Return(SelectSeq(v.l, IsDict))
    ELSE IF IsDict(v) \/ IsStr(v) THEN Return(<<>>)
    ELSE Raise(TypeError)

(* The first entry with entry.get("name") == name, None when there is none. *)
first_match(entries, name) ==
    IF \E i \in DOMAIN entries : dict_get(entries[i], s_name, PyNone) = name
    THEN entries[CHOOSE i \in DOMAIN entries :
                    /\ dict_get(entries[i], s_name, PyNone) = name
                    /\ \A j \in 1..(i - 1) :
                          dict_get(entries[j], s_name, PyNone) # name]
    ELSE PyNone

(* _resolve_shared_input reading the images pool whatever the kind. *)
_resolve_shared_input_images_only(kind, name) ==
    LET pool == get_shared_images
        it == iter_dicts(pool.val)
    IN IF ~pool.ok THEN pool
       ELSE IF ~it.ok THEN it
       ELSE Return(first_match(it.val, name))

_resolve_shared_input(kind, name) ==
    LET pool == IF kind = s_image THEN get_shared_images ELSE get_shared_videos
        it == iter_dicts(pool.val)
    IN IF ~pool.ok THEN pool
       ELSE IF ~it.ok THEN it
       ELSE Return(first_match(it.val, name))

(* One pass of `for k in ("images", "videos")`: the inner loop stops at    *)
(* the first entry named id and its break leaves the inner loop only, so   *)
(* a match under k replaces what an earlier pass had selected.              *)
scan(sel, inputs, k, id) ==
    LET it == iter_dicts(dict_get(inputs, k, PyList(<<>>)))
        m == first_match(it.val, PyStr(id))
    IN IF ~sel.ok THEN sel
       ELSE IF ~it.ok THEN it
       ELSE IF m # PyNone
       THEN Return([item |-> m, kind |-> SubSeq(k, 1, Len(k) - 1)])
       ELSE sel

NoItem == [item |-> PyNone, kind |-> <<>>]

select_input(inputs, id) ==
    scan(scan(Return(NoItem), inputs, s_images, id), inputs, s_videos, id)

NoTask == [t |-> "no task"]
DownloadTask(url, kind) == [t |-> "task", url |-> url, resource_type |-> kind]

Done(out) == [out |-> out, task |-> NoTask]

(* url of the selected item, then the download; success is the result of   *)
(* the downloader.                                                          *)
input_get_item(item, kind, success) ==
    LET shared == _resolve_shared_input(kind,
                      py_or(dict_get(item, s_ref, PyNone),
                            dict_get(item, s_name, PyNone)))
        url == py_or(dict_get(item, s_url, PyNone),
                     IF Truthy(shared.val)
                     THEN dict_get(shared.val, s_url, PyNone) ELSE shared.val)
    IN IF ~shared.ok THEN Done(shared)
       ELSE IF ~Truthy(url) THEN Done(die("No URL found for input"))
       ELSE IF ~IsStr(url) THEN Done(Raise(TypeError))
       ELSE [out |-> IF success THEN Return(PyNone) ELSE die("download failed"),
             task |-> DownloadTask(url.s, kind)]

cmd_input_get(app, id, success) ==
    LET inputs == get_inputs_for_app(app)
        sel == select_input(inputs.val, id)
    IN IF ~inputs.ok THEN Done(inputs)
       ELSE IF ~Truthy(inputs.val) THEN Done(die("No inputs defined for app"))
       ELSE IF ~IsDict(inputs.val) THEN Done(Raise(AttributeError))
       ELSE IF ~sel.ok THEN Done(sel)
       ELSE IF ~Truthy(sel.val.item) THEN Done(die("Input not found for app"))
       ELSE input_get_item(sel.val.item, sel.val.kind, success)

(* The inputs of the app chat and the shared pools. *)
named(name) == PyDict(s_name :> PyStr(name))
with(d, k, v) == PyDict((k :> v) @@ d.m)

InputItems ==
    {with(named(s_Zoo), s_url, PyStr(s_own_url)),
     named(s_Zoo),
     with(named(s_Zoo), s_ref, PyStr(s_bus)),
     with(named(s_Zoo), s_url, PyStr(s_empty)),
     with(named(s_Zoo), s_ref, PyStr(s_empty)),
     with(with(named(s_Zoo), s_url, PyNone), s_ref, PyStr(s_bus))}

ImageLists ==
    {Absent, PyNone, PyList(<<named(s_bus)>>),
     PyList(<<PyStr(s_Zoo), named(s_Zoo), with(named(s_Zoo), s_url, PyStr(s_own_url))>>)}
        \cup {PyList(<<i>>) : i \in InputItems}

VideoLists ==
    {Absent, PyList(<<named(s_Zoo)>>),
     PyList(<<with(named(s_Zoo), s_url, PyStr(s_hef_url))>>),
     PyList(<<with(named(s_Zoo), s_ref, PyStr(s_bus))>>)}

ImagePools ==
    {Absent, PyList(<<with(named(s_Zoo), s_url, PyStr(s_img_url))>>),
     PyList(<<with(named(s_bus), s_url, PyStr(s_img_url)), named(s_Zoo)>>)}

VideoPools ==
    {Absent, PyList(<<with(named(s_Zoo), s_url, PyStr(s_vid_url))>>),
     PyList(<<with(named(s_bus), s_url, PyStr(s_vid_url))>>)}

InputDoc(images, videos, image_pool, video_pool) ==
    mk_dict({s_inputs, s_inputs_aliases, s_images, s_videos},
            LAMBDA k : CASE k = s_inputs ->
                              PyDict(s_chat :>
                                  mk_dict({s_images, s_videos},
                                          LAMBDA kk : IF kk = s_images THEN images
                                                      ELSE videos))
                         [] k = s_inputs_aliases -> PyDict(s_llm_chat :> PyStr(s_chat))
                         [] k = s_images -> image_pool
                         [] k = s_videos -> video_pool)

InputDocs ==
    {InputDoc(i, v, ip, vp) :
        i \in ImageLists, v \in VideoLists, ip \in ImagePools, vp \in VideoPools}

Ids == {s_Zoo, s_missing}

CmdInputGet ==
    \E app \in Apps, id \in Ids, success \in BOOLEAN :
        /\ last' = [op |-> "cmd_input_get", args |-> <<app, id>>,
                    out |-> cmd_input_get(app, id, success).out, ref |-> Fresh,
                    task |-> cmd_input_get(app, id, success).task]
        /\ cache' = lru_cache_after(resources_config)
        /\ UNCHANGED <<files, inflight>>

InitInput ==
    /\ \E r \in InputDocs :
          files = (main_config :> Yaml(PyDict(s_resources :> EmptyDict)))
                      @@ (resources_config :> Yaml(r))
    /\ cache = <<>>
    /\ last = NoCall
    /\ inflight = NoCalls

NextInput ==
    \/ CmdInputGet
    \/ GetInputsForApp

SpecInput == InitInput /\ [][NextInput]_vars

----------------------------------------------------------------------------
(* Concurrent calls of _load_yaml.  The lru_cache wrapper looks the key    *)
(* up, calls the function outside the cache on a miss, and stores the      *)
(* result afterwards unless the key has been stored meanwhile.  The files  *)
(* do not change.                                                           *)

(* The cache after a call for path has returned doc, the key stored        *)
(* whether or not another call has stored it meanwhile.                     *)
cache_after_store_unchecked(path, doc) ==
    LET kept == IF Len(cache) >= maxsize THEN Tail(cache) ELSE cache
    IN Append(kept, [key |-> path, doc |-> doc])

(* The cache after a call for path, a miss, has returned doc. *)
cache_after_store(path, doc) ==
    IF cache_has(path) THEN cache
    ELSE LET kept == IF Len(cache) >= maxsize THEN Tail(cache) ELSE cache
         IN Append(kept, [key |-> path, doc |-> doc])

(* Caller c has its result; a hit and the call that stored its result hold *)
(* the cached object.                                                       *)
Returned(c, path, out, cached) ==
    /\ inflight' = [inflight EXCEPT ![c] =
                       [pc |-> "returned", path |-> path, out |-> out,
                        hit |-> cached /\ inflight[c].pc = "idle"]]
    /\ last' = [op |-> "_load_yaml", args |-> <<path>>, out |-> out,
                ref |-> IF cached THEN Loc(path, <<>>) ELSE Fresh]

(* Caller c enters _load_yaml(path): a hit returns the cached document. *)
Enter(c) ==
    \E path \in Paths :
        /\ inflight[c].pc = "idle"
        /\ IF cache_has(path)
           THEN /\ cache' = Append(cache_without(path),
                                   [key |-> path, doc |-> cache_doc(path)])
                /\ Returned(c, path, Return(cache_doc(path)), TRUE)
           ELSE /\ inflight' = [inflight EXCEPT ![c] = [pc |-> "miss", path |-> path]]
                /\ UNCHANGED <<cache, last>>
        /\ UNCHANGED files

(* Caller c runs the body of _load_yaml. *)
Body(c) ==
    /\ inflight[c].pc = "miss"
    /\ inflight' = [inflight EXCEPT ![c] =
                       [pc |-> "loaded", path |-> inflight[c].path,
                        out |-> load_yaml_body(inflight[c].path)]]
    /\ UNCHANGED <<files, cache, last>>

(* The wrapper stores the result of caller c and returns it; an exception  *)
(* passes through and nothing is stored.                                    *)
Store(c) ==
    /\ inflight[c].pc = "loaded"
    /\ cache' = IF inflight[c].out.ok
                THEN cache_after_store(inflight[c].path, inflight[c].out.val)
                ELSE cache
    /\ Returned(c, inflight[c].path, inflight[c].out,
                inflight[c].out.ok /\ ~cache_has(inflight[c].path))
    /\ UNCHANGED files

(* Caller c goes on and may call again. *)
Leave(c) ==
    /\ inflight[c].pc = "returned"
    /\ inflight' = [inflight EXCEPT ![c] = Idle]
    /\ UNCHANGED <<files, cache, last>>

InitRace ==
    /\ files \in [Paths -> FileStates]
    /\ cache = <<>>
    /\ last = NoCall
    /\ inflight = NoCalls

NextRace ==
    \E c \in Callers :
        \/ Enter(c)
        \/ Body(c)
        \/ Store(c)
        \/ Leave(c)

SpecRace == InitRace /\ [][NextRace]_vars

(* _extract_models alone, over the raw slots. *)

InitExtract ==
    /\ files = (main_config :> Missing) @@ (resources_config :> Missing)
    /\ cache = <<>>
    /\ \E entry \in RawSlots :
          last = [op |-> "raw_slot", args |-> <<entry>>, out |-> Return(PyNone),
                  ref |-> Fresh]
    /\ inflight = NoCalls

NextExtract == ExtractModels

SpecExtract == InitExtract /\ [][NextExtract]_vars

----------------------------------------------------------------------------
(* Properties. *)

(* The entries of a returned list. *)
Entries(out) == out.val.l

(* C1: get_all_models(app, arch) is get_default_models(app, arch) followed *)
(* by get_extra_models(app, arch): every default entry at its own place,    *)
(* then every extra entry at its own place, none removed although a name    *)
(* repeats; it raises exactly when one of the two raises.                   *)
C1_AllIsDefaultThenExtra ==
    last.op = "get_all_models" =>
        LET d == get_default_models(last.args[1], last.args[2])
            x == get_extra_models(last.args[1], last.args[2])
        IN IF d.ok /\ x.ok
           THEN /\ last.out.ok
                /\ IsList(last.out.val)
                /\ Len(Entries(last.out)) = Len(Entries(d)) + Len(Entries(x))
                /\ \A i \in 1..Len(Entries(d)) :
                       Entries(last.out)[i] = Entries(d)[i]
                /\ \A j \in 1..Len(Entries(x)) :
                       Entries(last.out)[Len(Entries(d)) + j] = Entries(x)[j]
           ELSE ~last.out.ok

(* C1 witness: a list returned by get_all_models in which a name repeats   *)
(* inside the default tier and again in the extra tier.                     *)
C1_Witness ==
    /\ last.op = "get_all_models"
    /\ last.out.ok
    /\ LET d == get_default_models(last.args[1], last.args[2])
           x == get_extra_models(last.args[1], last.args[2])
       IN /\ Len(Entries(d)) >= 2
          /\ Len(Entries(x)) >= 1
          /\ Entries(d)[1].name = Entries(d)[2].name
          /\ \E j \in DOMAIN Entries(x) : Entries(x)[j].name = Entries(d)[1].name

(* The null sentinel as the specification words it: null, or "none" in any *)
(* mix of capitals.                                                         *)
NullSentinel(v) == v = PyNone \/ (IsStr(v) /\ v.s \in NoneSpellings)

(* What one element of a slot contributes: one entry or nothing. *)
Contribution(e) ==
    IF IsDict(e) /\ s_name \in DOMAIN e.m /\ ~NullSentinel(e.m[s_name])
    THEN <<[t |-> "ModelEntry",
            name |-> e.m[s_name],
            source |-> IF s_source \in DOMAIN e.m THEN e.m[s_source] ELSE PyStr(s_mz),
            url |-> IF s_url \in DOMAIN e.m THEN e.m[s_url] ELSE PyNone]>>
    ELSE IF IsStr(e) /\ ~NullSentinel(e)
    THEN <<[t |-> "ModelEntry", name |-> e, source |-> PyStr(s_mz), url |-> PyNone]>>
    ELSE <<>>

RECURSIVE Contributions(_)
Contributions(l) ==
    IF l = <<>> THEN <<>> ELSE Contribution(Head(l)) \o Contributions(Tail(l))

(* C2: normalization maps and filters element by element, in order: a list *)
(* gives the contributions of its elements one after the other, and a       *)
(* single mapping or string x gives what the list [x] gives.                *)
C2_NormalizeElementWise ==
    last.op = "_extract_models" =>
        LET entry == last.args[1]
        IN /\ last.out.ok /\ IsList(last.out.val)
           /\ IsList(entry) => Entries(last.out) = Contributions(entry.l)
           /\ (IsDict(entry) \/ IsStr(entry)) =>
                  /\ last.out.val = _extract_models(PyList(<<entry>>))
                  /\ Entries(last.out) = Contribution(entry)

(* C2 witness: a list whose first and last elements give two different     *)
(* entries and whose middle element is skipped.                             *)
C2_Witness ==
    /\ last.op = "_extract_models"
    /\ IsList(last.args[1])
    /\ Len(last.args[1].l) = 3
    /\ Contribution(last.args[1].l[2]) = <<>>
    /\ last.args[1].l[2] # PyNone
    /\ Len(Entries(last.out)) = 2
    /\ Entries(last.out)[1] # Entries(last.out)[2]
    /\ IsDict(last.args[1].l[1])
    /\ IsStr(last.args[1].l[3])

(* The raw value of the slot (app, arch, tier) of the resource document,    *)
(* Absent when the tier key is not there.                                   *)
RawSlot(app, arch, tier) ==
    py_get(py_get(py_get(py_get(get_resources_config, app, EmptyDict),
                         s_models, EmptyDict),
                  arch, EmptyDict),
           tier, Absent)

LastTier ==
    IF last.op = "get_default_models" THEN s_default ELSE s_extra

(* C3: a slot that is absent, null or "none" in any mix of capitals gives  *)
(* no entry, in the default and in the extra tier; every other string, the  *)
(* empty string too, is taken as a model name.                              *)
C3_NullSentinelSlot ==
    (last.op \in {"get_default_models", "get_extra_models"}
       /\ RawSlot(last.args[1], last.args[2], LastTier).ok) =>
        LET raw == RawSlot(last.args[1], last.args[2], LastTier).val
        IN /\ last.out.ok
           /\ (raw = Absent \/ NullSentinel(raw)) => Entries(last.out) = <<>>
           /\ (IsStr(raw) /\ ~NullSentinel(raw)) =>
                  Entries(last.out) = <<ModelEntry(raw, PyStr(s_mz), PyNone)>>

(* C3 witness: get_extra_models on a slot holding "NONE" has returned the  *)
(* empty list.                                                              *)
C3_Witness ==
    /\ last.op = "get_extra_models"
    /\ RawSlot(last.args[1], last.args[2], s_extra) = Return(PyStr(s_NONE))
    /\ last.out = Return(PyList(<<>>))

ModelListOps == {"get_default_models", "get_extra_models", "get_all_models"}

NonEmptyName(m) == IsStr(m.name) /\ Len(m.name.s) > 0

(* C4: every ModelEntry that get_default_models, get_extra_models,         *)
(* get_all_models or get_model_info returns has a non-empty name.           *)
C4_NameNonEmpty ==
    /\ (last.op \in ModelListOps /\ last.out.ok) =>
           \A i \in DOMAIN Entries(last.out) : NonEmptyName(Entries(last.out)[i])
    /\ (last.op = "get_model_info" /\ last.out.ok /\ last.out.val # PyNone) =>
           NonEmptyName(last.out.val)

(* C5: get_model_info returns the first entry of get_all_models with the   *)
(* requested name, and None without raising when no entry has it.           *)
C5_FirstMatch ==
    (last.op = "get_model_info"
       /\ get_all_models(last.args[1], last.args[2]).ok) =>
        LET all == Entries(get_all_models(last.args[1], last.args[2]))
            hits == {i \in DOMAIN all : all[i].name = PyStr(last.args[3])}
        IN /\ last.out.ok
           /\ hits = {} => last.out.val = PyNone
           /\ hits # {} =>
                  last.out.val = all[CHOOSE i \in hits : \A j \in hits : i <= j]

(* C5 witness: the name is in the default tier and, with another source,   *)
(* in the extra tier, and the default entry has been returned.              *)
C5_Witness ==
    /\ last.op = "get_model_info"
    /\ last.out.ok
    /\ LET d == get_default_models(last.args[1], last.args[2])
           x == get_extra_models(last.args[1], last.args[2])
       IN /\ d.ok /\ x.ok
          /\ \E i \in DOMAIN Entries(d) :
                 /\ Entries(d)[i] = last.out.val
                 /\ \A k \in 1..(i - 1) : Entries(d)[k].name # PyStr(last.args[3])
          /\ \E j \in DOMAIN Entries(x) :
                 /\ Entries(x)[j].name = PyStr(last.args[3])
                 /\ Entries(x)[j] # last.out.val


(* The resource document as loaded. *)
LoadedDict == get_resources_config.ok /\ IsDict(get_resources_config.val)

Names(out) == {Entries(out)[i] : i \in DOMAIN Entries(out)}

Ascending(l) == \A i \in 1..(Len(l) - 1) : str_lt(l[i].s, l[i + 1].s)

(* C6: for a resource document that is a mapping, get_available_apps       *)
(* returns, ascending and without duplicates, exactly the top-level keys    *)
(* whose value is a mapping and which are none of videos, images, json,     *)
(* inputs, inputs_aliases.                                                  *)
C6_AvailableApps ==
    (last.op = "get_available_apps" /\ LoadedDict) =>
        LET doc == get_resources_config.val.m
        IN /\ last.out.ok /\ IsList(last.out.val)
           /\ Ascending(Entries(last.out))
           /\ Names(last.out) =
                  {PyStr(k) : k \in {kk \in DOMAIN doc :
                      /\ doc[kk].t = "dict"
                      /\ kk # s_videos /\ kk # s_images /\ kk # s_json
                      /\ kk # s_inputs /\ kk # s_inputs_aliases}}

(* C6 witness: two applications returned in order from a document that     *)
(* also has a reserved key with a mapping value and a key with a list.      *)
C6_Witness ==
    /\ last.op = "get_available_apps"
    /\ last.out = Return(PyList(<<PyStr(s_chat), PyStr(s_detection)>>))
    /\ LoadedDict
    /\ {s_videos, s_images, s_inputs_aliases} \subseteq DOMAIN get_resources_config.val.m
    /\ IsDict(get_resources_config.val.m[s_videos])
    /\ IsDict(get_resources_config.val.m[s_inputs_aliases])
    /\ IsList(get_resources_config.val.m[s_images])

(* The keys under models the claim lists for app: those with a mapping     *)
(* value when the app and its models are mappings, none otherwise.          *)
ClaimedArchitectures(app) ==
    LET doc == get_resources_config.val.m
    IN IF app \in DOMAIN doc /\ IsDict(doc[app]) /\ s_models \in DOMAIN doc[app].m
          /\ IsDict(doc[app].m[s_models])
       THEN {k \in DOMAIN doc[app].m[s_models].m : IsDict(doc[app].m[s_models].m[k])}
       ELSE {}

(* C7: for a resource document that is a mapping,                           *)
(* get_supported_architectures(app) returns the sorted keys under the app's *)
(* models whose value is a mapping, and the empty list without raising      *)
(* when the app or its models is absent or not a mapping.                   *)
C7_SupportedArchitectures ==
    (last.op = "get_supported_architectures" /\ LoadedDict) =>
        /\ last.out.ok
        /\ Ascending(Entries(last.out))
        /\ Names(last.out) = {PyStr(k) : k \in ClaimedArchitectures(last.args[1])}

(* C8: for a resource document that is a mapping, resolve_inputs_app(app)  *)
(* returns a string, app itself or its alias target, and never raises.      *)
C8_ResolveInputsTotal ==
    (last.op = "resolve_inputs_app" /\ LoadedDict) =>
        LET app == last.args[1]
            doc == get_resources_config.val.m
        IN /\ last.out.ok
           /\ IsStr(last.out.val)
           /\ \/ last.out.val = PyStr(app)
              \/ /\ s_inputs_aliases \in DOMAIN doc
                 /\ IsDict(doc[s_inputs_aliases])
                 /\ app \in DOMAIN doc[s_inputs_aliases].m
                 /\ last.out.val = doc[s_inputs_aliases].m[app]

(* C9: is_gen_ai_app(app) is true exactly when some architecture of        *)
(* get_supported_architectures(app) has an entry of get_all_models with     *)
(* source "gen-ai-mz"; it is false for an app without architectures.        *)
C9_GenAiIffSomeModel ==
    (last.op = "is_gen_ai_app" /\ get_supported_architectures(last.args[1]).ok) =>
        LET app == last.args[1]
            archs == Names(get_supported_architectures(app))
        IN /\ last.out.ok
           /\ last.out.val =
                  PyBool(\E a \in archs :
                            /\ get_all_models(app, a.s).ok
                            /\ \E m \in Names(get_all_models(app, a.s)) :
                                   m.source = PyStr(s_gen_ai_mz))

(* C9 witness: True returned for an app whose first architecture has no    *)
(* such entry and whose second has one in the extra tier only.              *)
C9_Witness ==
    /\ last.op = "is_gen_ai_app"
    /\ last.out = Return(PyBool(TRUE))
    /\ LET app == last.args[1]
           archs == get_supported_architectures(app)
       IN /\ archs.ok /\ Len(Entries(archs)) = 2
          /\ \A m \in Names(get_all_models(app, Entries(archs)[1].s)) :
                 m.source # PyStr(s_gen_ai_mz)
          /\ \A m \in Names(get_default_models(app, Entries(archs)[2].s)) :
                 m.source # PyStr(s_gen_ai_mz)
          /\ \E m \in Names(get_extra_models(app, Entries(archs)[2].s)) :
                 m.source = PyStr(s_gen_ai_mz)

(* What the file at path gives a load that reads it: the missing-config    *)
(* error, the invalid-config error, or the parsed tree, an empty mapping    *)
(* standing for a document whose parsed value is null or otherwise false.   *)
FileOutcome(path) ==
    CASE files[path] = Missing ->
             Raise([class |-> "ConfigError", msg |-> "Missing config file: ",
                    path |-> path])
      [] files[path] = Garbled ->
             Raise([class |-> "ConfigError", msg |-> "Invalid YAML in ",
                    path |-> path, cause |-> "yaml.YAMLError"])
      [] OTHER ->
             Return(IF files[path].doc \in {PyNone, PyBool(FALSE), PyInt(0),
                                            PyStr(<<>>), PyList(<<>>), EmptyDict}
                    THEN EmptyDict ELSE files[path].doc)

(* A step that is a load of path. *)
LoadCall(path) ==
    IF path = main_config THEN GetMainConfig ELSE GetResourcesConfig

AnyLoad(path) == LoadYamlOf(path) \/ (path \in Paths /\ LoadCall(path))

----------------------------------------------------------------------------
(* C12: a call of an accessor of the core either returns a result or       *)
(* raises ConfigError and no other exception reaches the caller; an        *)
(* unknown app, architecture, model name or input is reported as an empty  *)
(* collection or None.                                                      *)
Accessors ==
    {"get_main_config", "get_resources_config", "get_resources_path_config",
     "get_model_zoo_mapping", "get_available_apps",
     "get_supported_architectures", "get_default_models", "get_extra_models",
     "get_all_models", "get_model_info", "get_inputs_for_app",
     "resolve_inputs_app", "get_shared_images", "get_shared_videos",
     "get_shared_json_files", "is_gen_ai_app"}

Empty == {PyNone, EmptyDict, PyList(<<>>)}

(* The app named by the call is no key of the resource document. *)
UnknownApp ==
    /\ last.op \in {"get_supported_architectures", "get_default_models",
                    "get_extra_models", "get_all_models", "get_model_info"}
    /\ LoadedDict
    /\ last.args[1] \notin DOMAIN get_resources_config.val.m

(* The app named by the call, its alias resolved, has no inputs. *)
UnknownInput ==
    /\ last.op = "get_inputs_for_app"
    /\ get_inputs_config.ok /\ IsDict(get_inputs_config.val)
    /\ resolve_inputs_app(last.args[1]).ok
    /\ IsStr(resolve_inputs_app(last.args[1]).val)
    /\ resolve_inputs_app(last.args[1]).val.s \notin DOMAIN get_inputs_config.val.m

C12_ReturnsOrConfigError ==
    last.op \in Accessors =>
        /\ last.out.ok \/ last.out.exc.class = "ConfigError"
        /\ (UnknownApp \/ UnknownInput) => last.out.ok /\ last.out.val \in Empty

----------------------------------------------------------------------------
(* C13: no shared mutable state escapes the document cache: a caller that  *)
(* changes a mapping or sequence an accessor returned changes neither a    *)
(* loaded document nor the result of any later accessor call.               *)
C13_NoSharedStateEscapes ==
    [][/\ \A p \in Paths :
            cache_has(p) => cache_has(p)' /\ cache_doc(p)' = cache_doc(p)
       /\ get_main_config' = get_main_config
       /\ get_resources_config' = get_resources_config
       /\ get_resources_path_config' = get_resources_path_config
       /\ get_shared_images' = get_shared_images
       /\ get_shared_videos' = get_shared_videos
       /\ get_shared_json_files' = get_shared_json_files
       /\ \A app \in Apps : get_inputs_for_app(app)' = get_inputs_for_app(app)]_vars

----------------------------------------------------------------------------
(* The input-get command has run and selected an item of the app. *)
AppInputs == get_inputs_for_app(last.args[1])
Selected == select_input(AppInputs.val, last.args[2])

HasItem ==
    /\ last.op = "cmd_input_get"
    /\ AppInputs.ok /\ IsDict(AppInputs.val)
    /\ Selected.ok /\ Selected.val.item # PyNone

(* The key k is given in d: there and not null.  Given and not empty. *)
Present(d, k) == k \in DOMAIN d.m /\ d.m[k] # PyNone
NonEmpty(d, k) == k \in DOMAIN d.m /\ Truthy(d.m[k])

(* The url of the first entry named key in the shared pool of the kind. *)
SharedUrl(kind, key) ==
    LET pool == IF kind = s_image THEN get_shared_images ELSE get_shared_videos
        sh == first_match(iter_dicts(pool.val).val, key)
    IN IF sh = PyNone THEN PyNone ELSE dict_get(sh, s_url, PyNone)

Started(u, kind) == last.task = DownloadTask(u.s, kind)

NoUrl == last.out = die("No URL found for input") /\ last.task = NoTask

(* C14 as stated: the item's own url is used whenever it is present;       *)
(* otherwise the url of the shared entry of the same kind named by the     *)
(* item's ref, or by its name when ref is absent; with neither the command *)
(* ends with the no-URL error and starts no download.                       *)
C14_UrlPrecedence ==
    HasItem =>
        LET item == Selected.val.item
            kind == Selected.val.kind
            key == IF Present(item, s_ref) THEN item.m[s_ref] ELSE item.m[s_name]
        IN IF Present(item, s_url) THEN Started(item.m[s_url], kind)
           ELSE IF Truthy(SharedUrl(kind, key)) THEN Started(SharedUrl(kind, key), kind)
           ELSE NoUrl

(* C14 amended: the item's own url is used whenever it is given and not    *)
(* empty; otherwise the url of the shared entry of the same kind named by  *)
(* the item's ref, or by its name when ref is absent or empty; with        *)
(* neither the command ends with the no-URL error and starts no download.  *)
C14_UrlPrecedenceNonEmpty ==
    HasItem =>
        LET item == Selected.val.item
            kind == Selected.val.kind
            key == IF NonEmpty(item, s_ref) THEN item.m[s_ref] ELSE item.m[s_name]
        IN IF NonEmpty(item, s_url) THEN Started(item.m[s_url], kind)
           ELSE IF Truthy(SharedUrl(kind, key)) THEN Started(SharedUrl(kind, key), kind)
           ELSE NoUrl

C14_Witness ==
    /\ HasItem
    /\ Selected.val.item = with(named(s_Zoo), s_url, PyStr(s_empty))
    /\ Selected.val.kind = s_image
    /\ last.task = DownloadTask(s_img_url, s_image)
    /\ last.out = Return(PyNone)

(* The first entry named id of the list under k of the app's inputs. *)
FirstIn(k) ==
    first_match(iter_dicts(dict_get(AppInputs.val, k, PyList(<<>>))).val,
                PyStr(last.args[2]))

(* C18: input-get resolves the first entry named id, the images list       *)
(* searched before the videos list: an id in both lists is resolved from   *)
(* the images entry with kind "image".                                      *)
C18_ImagesBeforeVideos ==
    HasItem =>
        \E success \in BOOLEAN :
            LET first == IF FirstIn(s_images) # PyNone
                         THEN input_get_item(FirstIn(s_images), s_image, success)
                         ELSE input_get_item(FirstIn(s_videos),
                                             SubSeq(s_videos, 1, 5), success)
            IN last.out = first.out /\ last.task = first.task

----------------------------------------------------------------------------
(* C15: every ModelEntry produced by normalization has a string source,    *)
(* the one given in the raw mapping or "mz" when none is given (and for a  *)
(* bare string); no entry has a null source.                                *)
C15_SourceIsString ==
    last.op = "_extract_models" =>
        /\ \A i \in DOMAIN Entries(last.out) : IsStr(Entries(last.out)[i].source)
        /\ \A e \in RawElems :
              (last.args[1] = e /\ Contribution(e) # <<>>) =>
                  Entries(last.out)[1].source =
                      IF IsDict(e) /\ s_source \in DOMAIN e.m /\ e.m[s_source] # PyNone
                      THEN e.m[s_source] ELSE PyStr(s_mz)

----------------------------------------------------------------------------
(* C17: a failed load, of a missing file or of one that does not parse,    *)
(* leaves the cache as it was and is not memoized: the path stays          *)
(* uncached, and a load of an uncached path whose file exists and parses   *)
(* reads it and succeeds.                                                   *)
C17_FailedLoadNotMemoized ==
    [][\A p \in Spellings :
          AnyLoad(p) =>
              /\ ~last'.out.ok => (cache' = cache /\ ~cache_has(p)')
              /\ (~cache_has(p) /\ files[resolve(p)].kind = "yaml") =>
                     /\ last'.out = Return(IF Truthy(files[resolve(p)].doc)
                                           THEN files[resolve(p)].doc ELSE EmptyDict)
                     /\ cache_has(p)']_vars

C17_Witness ==
    /\ last.op = "_load_yaml"
    /\ last.args = <<resources_config_dotdot>>
    /\ last.out = Raise(ConfigErrorInvalid(resources_config_dotdot))
    /\ cache_has(main_config) /\ cache_has(resources_config)
    /\ ~cache_has(resources_config_dotdot)

----------------------------------------------------------------------------
(* C16: callers that miss the cache for the same path at the same time,    *)
(* the file unchanged, each receive a document equal to the parsed content *)
(* of the file, and the cache holds one document for the path, the parsed  *)
(* content, which every later load returns.                                 *)
EntriesFor(path) == {i \in DOMAIN cache : cache[i].key = path}

C16_RaceHarmless ==
    /\ \A c \in Callers :
          inflight[c].pc = "returned" =>
              /\ inflight[c].out = FileOutcome(inflight[c].path)
              /\ inflight[c].out.ok =>
                     /\ Cardinality(EntriesFor(inflight[c].path)) = 1
                     /\ cache_doc(inflight[c].path) = inflight[c].out.val
    /\ \A path \in Paths :
          /\ Cardinality(EntriesFor(path)) <= 1
          /\ cache_has(path) => _load_yaml(path) = FileOutcome(path)

C16_Witness ==
    /\ \A c \in Callers :
          /\ inflight[c].pc = "returned"
          /\ inflight[c].path = resources_config
          /\ ~inflight[c].hit
          /\ inflight[c].out = Return(PyList(<<PyStr(s_detection)>>))
    /\ Cardinality(EntriesFor(resources_config)) = 1
    /\ cache_doc(resources_config) = PyList(<<PyStr(s_detection)>>)

====
